---- MODULE Spec2Model ----
(***************************************************************************)
(* Parsews-ClearUp: the safety gate (backend/safety_checker.py), the       *)
(* rule-based classifier, the directory walker and the deletion executor   *)
(* (backend/file_scanner.py).  Paths are TLA+ strings; the string and path *)
(* functions of the Python standard library the code calls (str.lower,     *)
(* str.startswith, the `in` substring test, os.path.normpath,              *)
(* os.path.join, pathlib's name/suffix/resolve) are computed character by  *)
(* character over those strings.                                           *)
(***************************************************************************)
EXTENDS Integers, Sequences, FiniteSets, TLC

VARIABLES
    platform,       \* platform.system(): "Windows" or "Linux"
    fs,             \* the paths (real spelling) that exist on storage
    now,            \* time.time(), in seconds
    classPD,        \* SafetyChecker.PROTECTED_DIRECTORIES, the class attribute
    instPD,         \* per instance: its own PROTECTED_DIRECTORIES attribute, or NoAttr
    created,        \* the SafetyChecker instances constructed so far
    scanned_files,  \* FileScanner.scanned_files
    total_size,     \* FileScanner.total_size
    progress,       \* the directories passed to scan_progress_callback by the last scan
    window_files,   \* MainWindow.scanned_files, the rows of the table
    call,           \* the call just made: its arguments, what it returned, the state it ran in
    session,        \* the drives of the last scan and what was called since
    workers,        \* the ScanThread objects started, in order; the last is MainWindow.scan_thread
    signals         \* the signals of the scan threads queued for the window's thread

vars == <<platform, fs, now, classPD, instPD, created, scanned_files, total_size, progress,
          window_files, call, session, workers, signals>>

-----------------------------------------------------------------------------
(* Python str operations *)

\* s[i:] (1-based i)
From(s, i) == SubSeq(s, i, Len(s))

\* s.startswith(pre)
StartsWith(s, pre) == Len(pre) <= Len(s) /\ SubSeq(s, 1, Len(pre)) = pre

\* s.endswith(suf)
EndsWith(s, suf) == Len(suf) <= Len(s) /\ SubSeq(s, Len(s) - Len(suf) + 1, Len(s)) = suf

\* sub in s
Contains(s, sub) ==
    \E i \in 1..(Len(s) - Len(sub) + 1) : SubSeq(s, i, i + Len(sub) - 1) = sub

UpperCase ==
    {"A", "B", "C", "D", "E", "F", "G", "H", "I", "J", "K", "L", "M",
     "N", "O", "P", "Q", "R", "S", "T", "U", "V", "W", "X", "Y", "Z"}

\* c.lower() for one character: the ASCII letters
LowerChar(c) ==
    IF c \notin UpperCase THEN c
    ELSE CASE c = "A" -> "a" [] c = "B" -> "b" [] c = "C" -> "c" [] c = "D" -> "d"
           [] c = "E" -> "e" [] c = "F" -> "f" [] c = "G" -> "g" [] c = "H" -> "h"
           [] c = "I" -> "i" [] c = "J" -> "j" [] c = "K" -> "k" [] c = "L" -> "l"
           [] c = "M" -> "m" [] c = "N" -> "n" [] c = "O" -> "o" [] c = "P" -> "p"
           [] c = "Q" -> "q" [] c = "R" -> "r" [] c = "S" -> "s" [] c = "T" -> "t"
           [] c = "U" -> "u" [] c = "V" -> "v" [] c = "W" -> "w" [] c = "X" -> "x"
           [] c = "Y" -> "y" [] c = "Z" -> "z"

\* s.lower(), character by character (the string is halved to keep the
\* evaluation shallow)
RECURSIVE LowerOf(_)
LowerOf(s) ==
    IF Len(s) = 0 THEN ""
    ELSE IF Len(s) = 1 THEN LowerChar(s)
    ELSE LowerOf(SubSeq(s, 1, Len(s) \div 2)) \o LowerOf(From(s, Len(s) \div 2 + 1))

\* s.replace(a, b) for one-character a
RECURSIVE Replace(_, _, _)
Replace(s, a, b) ==
    IF Len(s) = 0 THEN ""
    ELSE IF Len(s) = 1 THEN (IF s = a THEN b ELSE s)
    ELSE Replace(SubSeq(s, 1, Len(s) \div 2), a, b) \o Replace(From(s, Len(s) \div 2 + 1), a, b)

\* the positions of the one-character c in s
Positions(s, c) == {i \in 1..Len(s) : SubSeq(s, i, i) = c}

\* the least and the greatest of a set of positions, 0 for none
FirstOf(at) == IF at = {} THEN 0 ELSE CHOOSE i \in at : \A j \in at : i <= j
LastOf(at) == IF at = {} THEN 0 ELSE CHOOSE i \in at : \A j \in at : j <= i

\* s.find(c) + 1 and s.rfind(c) + 1: the first and the last position of c in s, 0 if none
FirstIndex(s, c) == FirstOf(Positions(s, c))
LastIndex(s, c) == LastOf(Positions(s, c))

\* s.split(sep) for one-character sep: a sequence of strings
RECURSIVE Split(_, _)
RECURSIVE SplitAt(_, _, _)
Split(s, sep) == SplitAt(s, sep, FirstIndex(s, sep))
SplitAt(s, sep, i) ==
    IF i = 0 THEN <<s>>
    ELSE <<SubSeq(s, 1, i - 1)>> \o Split(From(s, i + 1), sep)

\* sep.join(comps)
RECURSIVE JoinWith(_, _)
JoinWith(comps, sep) ==
    IF Len(comps) = 0 THEN ""
    ELSE IF Len(comps) = 1 THEN comps[1]
    ELSE comps[1] \o sep \o JoinWith(Tail(comps), sep)

\* s.lstrip(c)
RECURSIVE LStrip(_, _)
LStrip(s, c) == IF Len(s) > 0 /\ SubSeq(s, 1, 1) = c THEN LStrip(From(s, 2), c) ELSE s

-----------------------------------------------------------------------------
(* os.path and pathlib, for the platform plat ("Windows": ntpath and          *)
(* PureWindowsPath; otherwise posixpath and PurePosixPath).  UNC and device   *)
(* paths and symbolic links are outside the model.                            *)

Platforms == {"Windows", "Linux"}

\* os.sep
Sep(plat) == IF plat = "Windows" THEN "\\" ELSE "/"

\* os.getcwd() of the process
Cwd(plat) == IF plat = "Windows" THEN "D:\\Work" ELSE "/home/u"

\* separators made uniform (ntpath: altsep "/" becomes "\\")
Seps(plat, s) == IF plat = "Windows" THEN Replace(s, "/", "\\") ELSE s

\* os.path.splitdrive(s)[0] for a drive-letter path
Drive(plat, s) ==
    IF plat = "Windows" /\ Len(s) >= 2 /\ SubSeq(s, 2, 2) = ":" THEN SubSeq(s, 1, 2) ELSE ""

\* the root of what follows the drive: the leading separator(s) normpath keeps
RootOf(plat, rest) ==
    IF ~StartsWith(rest, Sep(plat)) THEN ""
    ELSE IF plat # "Windows" /\ StartsWith(rest, "//") /\ ~StartsWith(rest, "///") THEN "//"
    ELSE Sep(plat)

\* the root part after the drive
Root(plat, s) == RootOf(plat, From(s, Len(Drive(plat, s)) + 1))

\* the loop of normpath over the components: drops "" and ".", resolves ".."
RECURSIVE NormComps(_, _, _)
NormComps(comps, out, rooted) ==
    IF Len(comps) = 0 THEN out
    ELSE IF Head(comps) = "" \/ Head(comps) = "." THEN NormComps(Tail(comps), out, rooted)
    ELSE IF Head(comps) # ".." THEN NormComps(Tail(comps), Append(out, Head(comps)), rooted)
    ELSE IF Len(out) > 0 /\ out[Len(out)] # ".."
         THEN NormComps(Tail(comps), SubSeq(out, 1, Len(out) - 1), rooted)
    ELSE IF Len(out) = 0 /\ rooted THEN NormComps(Tail(comps), out, rooted)
    ELSE NormComps(Tail(comps), Append(out, ".."), rooted)

\* the end of normpath: the prefix and the components put together
NormJoin(plat, prefix, comps) ==
    IF prefix = "" /\ Len(comps) = 0 THEN "."
    ELSE prefix \o JoinWith(comps, Sep(plat))

\* normpath of a path whose separators are uniform, given its drive and root
NormParts(plat, u, drive, root) ==
    NormJoin(plat, drive \o root,
             NormComps(Split(LStrip(From(u, Len(drive) + 1), Sep(plat)), Sep(plat)),
                       <<>>, root # ""))

NormSeps(plat, u) == NormParts(plat, u, Drive(plat, u), Root(plat, u))

\* os.path.normpath(s), computed
NormPathOf(plat, s) == NormSeps(plat, Seps(plat, s))

\* os.path.join(directory, entry) for an entry that is a bare name
PathJoin(plat, directory, entry) ==
    IF directory = "" \/ EndsWith(directory, Sep(plat)) \/ (plat = "Windows" /\ EndsWith(directory, "/"))
       \/ (plat = "Windows" /\ EndsWith(directory, ":"))
    THEN directory \o entry
    ELSE directory \o Sep(plat) \o entry

\* the components pathlib keeps of Path(s): "" and "." are dropped, ".." stays
RECURSIVE PathParts(_)
PathParts(comps) ==
    IF Len(comps) = 0 THEN <<>>
    ELSE IF Head(comps) = "" \/ Head(comps) = "." THEN PathParts(Tail(comps))
    ELSE <<Head(comps)>> \o PathParts(Tail(comps))

PartsSeps(plat, u) == PathParts(Split(From(u, Len(Drive(plat, u)) + 1), Sep(plat)))

\* Path(s).parts without the drive and root, computed
PartsOf(plat, s) == PartsSeps(plat, Seps(plat, s))

\* the last of the parts, "" for none
LastPart(parts) == IF Len(parts) = 0 THEN "" ELSE parts[Len(parts)]

\* Path(s).name, computed
PathNameOf(plat, s) == LastPart(PartsOf(plat, s))

\* the suffix of a name whose last dot is at i
SuffixAt(name, i) == IF 1 < i /\ i < Len(name) THEN From(name, i) ELSE ""

SuffixOf(name) == SuffixAt(name, LastIndex(name, "."))

\* Path(s).suffix, computed
PathSuffixOf(plat, s) == SuffixOf(PathNameOf(plat, s))

\* os.path.isabs(s)
IsAbsSeps(plat, u) == Root(plat, u) # "" /\ (plat = "Windows" => Drive(plat, u) # "")
IsAbs(plat, s) == IsAbsSeps(plat, Seps(plat, s))

\* os.path.abspath(s), computed
AbsPathOf(plat, s) ==
    NormPathOf(plat, IF IsAbs(plat, s) THEN s ELSE Cwd(plat) \o Sep(plat) \o s)

-----------------------------------------------------------------------------
(* backend/safety_checker.py *)

\* SafetyChecker.PROTECTED_DIRECTORIES as the class body sets it
PROTECTED_DIRECTORIES ==
    { "C:\\Windows", "C:\\Windows\\System32", "C:\\Windows\\SysWOW64",
      "C:\\Program Files", "C:\\Program Files (x86)", "C:\\ProgramData",
      "C:\\Users", "C:\\$Recycle.Bin", "C:\\System Volume Information",
      "C:\\Recovery", "C:\\Boot", "C:\\PerfLogs" }

PROTECTED_EXTENSIONS ==
    { ".exe", ".dll", ".sys", ".drv", ".ocx", ".cpl",
      ".msi", ".msm", ".msp", ".bat", ".cmd", ".ps1",
      ".reg", ".inf", ".cat", ".cer", ".crt", ".key",
      ".pfx", ".p12", ".p7b", ".p7c", ".p7m", ".p7s" }

PROTECTED_FILENAMES ==
    { "boot.ini", "ntldr", "ntdetect.com", "bootmgr",
      "bootmgr.efi", "bcd", "boot.sdi", "winload.exe",
      "winload.efi", "winresume.exe", "winresume.efi" }

\* temp_indicators of _is_temporary_file
temp_indicators ==
    { "\\Temp\\", "\\tmp\\", "\\AppData\\Local\\Temp\\",
      "\\AppData\\Local\\Microsoft\\Windows\\INetCache\\",
      "\\AppData\\Local\\Microsoft\\Windows\\Temporary Internet Files\\",
      "\\Windows\\Temp\\", "\\Windows\\Prefetch\\",
      "\\Windows\\SoftwareDistribution\\Download\\" }

-----------------------------------------------------------------------------
(* backend/file_scanner.py: the rule table and the classifier *)

\* FileScanner.CATEGORIES, in the order of the dict (its iteration order)
CATEGORIES ==
    << [category |-> "cache",
        patterns |-> {"cache", "Cache", "CACHE"},
        extensions |-> {".cache", ".tmp"},
        paths |-> {"AppData\\Local\\Temp", "AppData\\Local\\Microsoft\\Windows\\INetCache"}],
       [category |-> "temporary",
        patterns |-> {"temp", "Temp", "TEMP", "tmp", "TMP"},
        extensions |-> {".tmp", ".temp", ".bak", ".old"},
        paths |-> {"Temp", "tmp", "Windows\\Temp"}],
       [category |-> "logs",
        patterns |-> {"log", "Log", "LOG"},
        extensions |-> {".log", ".txt"},
        paths |-> {"Logs", "logs"}],
       [category |-> "prefetch",
        patterns |-> {"Prefetch"},
        extensions |-> {".pf"},
        paths |-> {"Windows\\Prefetch"}],
       [category |-> "recycle_bin",
        patterns |-> {"$Recycle.Bin"},
        extensions |-> {},
        paths |-> {"$Recycle.Bin"}],
       [category |-> "downloads_old",
        patterns |-> {},
        extensions |-> {},
        paths |-> {"Downloads"},
        age_days |-> 90] >>

\* _categorize_file returns None
None == "None"

\* 24 * 3600, the seconds of a day in the age computation
SecondsPerDay == 24 * 3600

-----------------------------------------------------------------------------
(* The storage the program runs on: a fixed tree of directories and files,   *)
(* in the order os.listdir reports them.  A file has a size and a            *)
(* modification time; `locked` makes os.remove raise PermissionError,        *)
(* `denied` makes os.listdir raise PermissionError.                          *)

\* time.time() when the program starts
StartTime == 200 * SecondsPerDay

\* st_mtime of a file that is `days` days old at StartTime
DaysOld(days) == StartTime - days * SecondsPerDay

Dir(d, n) == [dir |-> d, name |-> n, kind |-> "dir", size |-> 0, mtime |-> DaysOld(1),
              locked |-> FALSE, denied |-> FALSE]
NoEntry(d, n) == [dir |-> d, name |-> n, kind |-> "dir", size |-> 0, mtime |-> DaysOld(1),
                  locked |-> FALSE, denied |-> TRUE]
File(d, n, sz, days) == [dir |-> d, name |-> n, kind |-> "file", size |-> sz, mtime |-> DaysOld(days),
                         locked |-> FALSE, denied |-> FALSE]
Held(d, n, sz, days) == [dir |-> d, name |-> n, kind |-> "file", size |-> sz, mtime |-> DaysOld(days),
                         locked |-> TRUE, denied |-> FALSE]

WinDisk ==
    << Dir("", "C:\\"),
       NoEntry("C:\\", "Sealed"),
       Dir("C:\\", "Windows"),
       File("C:\\Windows", "win.log", 5, 30),
       Dir("C:\\Windows", "Temp"),
       File("C:\\Windows\\Temp", "a.tmp", 7, 30),
       Dir("C:\\", "Bootcamp"),
       File("C:\\Bootcamp", "x.log", 2, 30),
       Dir("", "D:\\"),
       Dir("D:\\", "Data"),
       File("D:\\Data", "old.log", 3, 30),
       File("D:\\Data", "report.dat", 4, 30),
       File("D:\\Data", "setup.exe", 6, 30),
       File("D:\\Data", ".cache", 1, 30),
       Dir("D:\\", "Temp"),
       File("D:\\Temp", "run.exe", 9, 30),
       File("D:\\Temp", "bootmgr", 10, 30),
       Dir("D:\\", "Downloads"),
       File("D:\\Downloads", "new.iso", 11, 89),
       File("D:\\Downloads", "old.iso", 12, 91),
       NoEntry("D:\\", "Locked"),
       File("D:\\Locked", "z.log", 13, 30),
       Dir("D:\\", "Work"),
       Held("D:\\", "held.bak", 8, 30) >>

PosixDisk ==
    << Dir("", "/"),
       Dir("/", "data"),
       File("/data", "old.log", 3, 30),
       File("/data", "report.dat", 4, 30),
       Dir("/", "home"),
       Dir("/home", "u") >>

Disk(plat) == IF plat = "Windows" THEN WinDisk ELSE PosixDisk

\* the path of an entry of the disk, in its stored spelling
EntryPath(plat, e) == PathJoin(plat, e.dir, e.name)

\* every path of a disk
PathsOf(plat, disk) == {EntryPath(plat, disk[i]) : i \in 1..Len(disk)}
DiskPathsOf == [plat \in Platforms |-> PathsOf(plat, Disk(plat))]
DiskPaths(plat) == DiskPathsOf[plat]

\* the entry of each path of a disk
IndexOf(plat, disk) ==
    [p \in PathsOf(plat, disk) |-> disk[CHOOSE j \in 1..Len(disk) : EntryPath(plat, disk[j]) = p]]
DiskIndex == [plat \in Platforms |-> IndexOf(plat, Disk(plat))]

\* the entries of each directory of a disk, in the order of the listing
ChildrenOf(plat, disk) ==
    [p \in PathsOf(plat, disk) |-> SelectSeq(disk, LAMBDA e : e.dir = p)]
Children == [plat \in Platforms |-> ChildrenOf(plat, Disk(plat))]

\* what os.stat finds where nothing is stored
Missing == [dir |-> "", name |-> "", kind |-> "none", size |-> 0, mtime |-> 0,
            locked |-> FALSE, denied |-> FALSE]

-----------------------------------------------------------------------------
(* The inputs the operations are called with *)

\* the `drives` arguments of scan_drives: what the drive combo box of the window
\* holds (each drive, and all of them)
DriveLists(plat) == {<<"C:">>, <<"D:">>, <<"C:", "D:">>}

\* the paths delete_files and is_safe_to_delete are called with
CallPaths(plat) ==
    IF plat = "Windows"
    THEN { "D:\\Data\\old.log", "d:\\data\\OLD.LOG", "D:\\Data\\setup.exe", "D:\\Data\\.cache",
           "D:\\held.bak", "D:\\Temp\\run.exe", "D:\\Temp\\bootmgr", "D:\\Data\\gone.log",
           "D:\\Downloads\\old.iso", "C:\\Windows\\win.log", "D:\\Data" }
    ELSE { "/data/old.log", "/data/report.dat", "/data/gone.log", "/data" }

\* the paths is_safe_to_delete is called with directly
GatePaths(plat) ==
    CallPaths(plat) \cup
    (IF plat = "Windows"
     THEN { "D:\\Temp\\BOOTMGR", "C:\\Windows\\Temp\\a.tmp", "C:\\Windows\\Temp\\ntldr",
            "C:\\Bootcamp\\x.log" }
     ELSE { "/data/BootMgr" })

\* the directories add_custom_protected_directory is called with
CustomDirs(plat) ==
    IF plat = "Windows" THEN {"D:\\Data\\", "d:\\data"} ELSE {"/data/"}

-----------------------------------------------------------------------------
(* str.lower, os.path and pathlib are computed once for the strings the      *)
(* model is known to meet and looked up afterwards; any other string is      *)
(* computed on the spot, so each is the function defined above.              *)

RuleStrings ==
    UNION {CATEGORIES[i].patterns \cup CATEGORIES[i].extensions \cup CATEGORIES[i].paths :
           i \in 1..Len(CATEGORIES)}

KnownPathsOf ==
    [plat \in Platforms |->
        DiskPaths(plat) \cup GatePaths(plat) \cup CustomDirs(plat) \cup PROTECTED_DIRECTORIES
        \cup UNION {{d[i] \o "\\" : i \in 1..Len(d)} : d \in DriveLists(plat)}]
KnownPaths(plat) == KnownPathsOf[plat]

KnownStrings ==
    UNION {KnownPaths(plat) : plat \in Platforms} \cup temp_indicators \cup RuleStrings

\* the value looked up for a known string, computed for any other
Cached(known, cache, s, computed) == IF s \in known THEN cache[s] ELSE computed

LowerCache == [s \in KnownStrings |-> LowerOf(s)]

\* s.lower()
Lower(s) == Cached(KnownStrings, LowerCache, s, LowerOf(s))

NormCache == [plat \in Platforms |-> [s \in KnownPaths(plat) |-> NormPathOf(plat, s)]]

\* os.path.normpath(s)
NormPath(plat, s) == Cached(KnownPaths(plat), NormCache[plat], s, NormPathOf(plat, s))

AbsCache == [plat \in Platforms |-> [s \in KnownPaths(plat) |-> AbsPathOf(plat, s)]]

\* os.path.abspath(s) for an absolute path or a path relative to the working directory
AbsPath(plat, s) == Cached(KnownPaths(plat), AbsCache[plat], s, AbsPathOf(plat, s))

PartsCache == [plat \in Platforms |-> [s \in KnownPaths(plat) |-> PartsOf(plat, s)]]

\* Path(s).parts without the drive and root
Parts(plat, s) == Cached(KnownPaths(plat), PartsCache[plat], s, PartsOf(plat, s))

NameCache == [plat \in Platforms |-> [s \in KnownPaths(plat) |-> PathNameOf(plat, s)]]

\* Path(s).name
PathName(plat, s) == Cached(KnownPaths(plat), NameCache[plat], s, PathNameOf(plat, s))

SuffixCache == [plat \in Platforms |-> [s \in KnownPaths(plat) |-> PathSuffixOf(plat, s)]]

\* Path(s).suffix
PathSuffix(plat, s) == Cached(KnownPaths(plat), SuffixCache[plat], s, PathSuffixOf(plat, s))

\* any(indicator.lower() in normalized for indicator in temp_indicators)
AnyIndicator(normalized) ==
    \E indicator \in temp_indicators : Contains(normalized, LowerOf(indicator))

\* _is_temporary_file(file_path), computed
IsTemporaryOf(file_path) == AnyIndicator(LowerOf(file_path))

TemporaryCache == [s \in KnownStrings |-> IsTemporaryOf(s)]

\* SafetyChecker._is_temporary_file(file_path)
IsTemporaryFile(file_path) ==
    Cached(KnownStrings, TemporaryCache, file_path, IsTemporaryOf(file_path))

-----------------------------------------------------------------------------
(* The filesystem calls *)

\* The entry of `exist` the path p names: p itself when it is stored under
\* that spelling, else, on Windows, whose filesystems are case-insensitive and
\* case-preserving, the stored path that is p up to letter case (the disk holds
\* no two such); none when there is no such entry.
SameFile(exist, lowered) == {e \in exist : Lower(e) = lowered}
Stored(plat, exist, p) ==
    IF p \in exist THEN {p}
    ELSE IF plat = "Windows" THEN SameFile(exist, Lower(p))
    ELSE {}

\* the final path of realpath, component by component: an existing prefix takes
\* its stored spelling, the tail that does not exist is kept as given
RECURSIVE RealPath(_, _, _, _)
RECURSIVE RealStep(_, _, _, _, _)
RealPath(plat, exist, cur, comps) ==
    IF Len(comps) = 0 THEN cur
    ELSE RealStep(plat, exist, cur, comps, Stored(plat, exist, PathJoin(plat, cur, Head(comps))))
RealStep(plat, exist, cur, comps, hit) ==
    IF hit = {} THEN PathJoin(plat, cur, JoinWith(comps, Sep(plat)))
    ELSE RealPath(plat, exist, CHOOSE e \in hit : TRUE, Tail(comps))

\* resolve() of the absolute path a, whose drive and root are stored as `hit`
ResolveFrom(plat, exist, a, hit) ==
    IF hit = {} THEN a
    ELSE RealPath(plat, exist, CHOOSE e \in hit : TRUE, Parts(plat, a))
ResolveAbs(plat, exist, a) ==
    ResolveFrom(plat, exist, a, Stored(plat, exist, Drive(plat, a) \o Root(plat, a)))

\* str(Path(s).resolve())
Resolve(plat, exist, s) == ResolveAbs(plat, exist, AbsPath(plat, s))

\* what is stored under the path p, in any spelling the platform accepts
Lookup(plat, exist, p) == Stored(plat, exist, AbsPath(plat, p))

\* os.path.exists(s)
Exists(plat, exist, s) == Lookup(plat, exist, s) # {}

\* the entry of what is stored, Missing for nothing
EntryOf(plat, hit) == IF hit = {} THEN Missing ELSE DiskIndex[plat][CHOOSE e \in hit : TRUE]

\* os.stat(p): the entry stored under p, Missing when the call raises
Stat(plat, exist, p) == EntryOf(plat, Lookup(plat, exist, p))

\* os.path.isfile(p), os.path.isdir(p)
IsFile(plat, exist, p) == Stat(plat, exist, p).kind = "file"
IsDir(plat, exist, p) == Stat(plat, exist, p).kind = "dir"

\* the names of a sequence of entries
Names(here) == [i \in 1..Len(here) |-> here[i].name]

\* os.listdir of the readable directory stored as the entry `stat`: the names
\* of its entries
ListDir(plat, exist, stat) ==
    Names(SelectSeq(Children[plat][EntryPath(plat, stat)],
                    LAMBDA e : EntryPath(plat, e) \in exist))

-----------------------------------------------------------------------------
(* backend/safety_checker.py: the gate *)

\* the reasons is_safe_to_delete returns
ReasonDirectory(protected_dir) == "Arquivo está em diretório protegido: " \o protected_dir
ReasonExtension(suffix) == "Extensão protegida: " \o suffix
ReasonFilename(name) == "Nome de arquivo protegido: " \o name
ReasonHidden == "Arquivo oculto do sistema"
ReasonSafe == "Arquivo seguro para deletar"

\* the protected directories whose normalized name the normalized path starts with
\* (the test of the loop of is_safe_to_delete)
MatchingProtected(plat, pd, normalized_path) ==
    {protected_dir \in pd : StartsWith(normalized_path, NormPath(plat, protected_dir))}

\* the checks of is_safe_to_delete with the temporary-location exception
\* applied to the filename check as it is to the two checks before it
CheckPathWaived(hits, temporary, suffix, name, exists) ==
    IF hits # {} /\ ~temporary
    THEN [safe |-> FALSE, reason |-> ReasonDirectory(CHOOSE d \in hits : TRUE)]
    ELSE IF Lower(suffix) \in PROTECTED_EXTENSIONS /\ ~temporary
    THEN [safe |-> FALSE, reason |-> ReasonExtension(suffix)]
    ELSE IF Lower(name) \in PROTECTED_FILENAMES /\ ~temporary
    THEN [safe |-> FALSE, reason |-> ReasonFilename(name)]
    ELSE IF exists /\ StartsWith(name, ".")
    THEN [safe |-> FALSE, reason |-> ReasonHidden]
    ELSE [safe |-> TRUE, reason |-> ReasonSafe]

\* The checks of is_safe_to_delete, in their order: `hits` are the protected
\* directories the loop's test matches, `temporary` is
\* _is_temporary_file(normalized_path), suffix and name are path.suffix and
\* path.name, `exists` is path.exists().  The loop returns at the first
\* matching directory the set iteration meets; which one it names in the
\* reason is the iteration order's choice.
CheckPath(hits, temporary, suffix, name, exists) ==
    IF hits # {} /\ ~temporary
    THEN [safe |-> FALSE, reason |-> ReasonDirectory(CHOOSE d \in hits : TRUE)]
    ELSE IF Lower(suffix) \in PROTECTED_EXTENSIONS /\ ~temporary
    THEN [safe |-> FALSE, reason |-> ReasonExtension(suffix)]
    ELSE IF Lower(name) \in PROTECTED_FILENAMES
    THEN [safe |-> FALSE, reason |-> ReasonFilename(name)]
    ELSE IF exists /\ StartsWith(name, ".")
    THEN [safe |-> FALSE, reason |-> ReasonHidden]
    ELSE [safe |-> TRUE, reason |-> ReasonSafe]

\* is_safe_to_delete once normalized_path is computed
CheckResolved(plat, exist, pd, file_path, normalized_path) ==
    CheckPath(MatchingProtected(plat, pd, normalized_path), IsTemporaryFile(normalized_path),
              PathSuffix(plat, file_path), PathName(plat, file_path),
              Exists(plat, exist, file_path))

\* SafetyChecker.is_safe_to_delete(file_path) of a checker whose
\* PROTECTED_DIRECTORIES is pd, on the filesystem `exist`: (safe, reason)
IsSafeToDelete(plat, exist, pd, file_path) ==
    CheckResolved(plat, exist, pd, file_path, NormPath(plat, Resolve(plat, exist, file_path)))


\* the instances of SafetyChecker: the one FileScanner.__init__ makes, the one
\* MainWindow.__init__ makes, and one a caller constructs later
Scanner == "scanner"
Window == "window"
Extra == "extra"
Checkers == {Scanner, Window, Extra}

\* the instance attribute PROTECTED_DIRECTORIES: absent (the instance reads the
\* class attribute), or a set of the instance's own
NoAttr == [own |-> FALSE, dirs |-> {}]
Own(dirs) == [own |-> TRUE, dirs |-> dirs]

\* self.PROTECTED_DIRECTORIES: the instance attribute, else the class attribute
ProtectedOf(cls, inst, self) == IF inst[self].own THEN inst[self].dirs ELSE cls

\* SafetyChecker._normalize_protected_paths, called by __init__: the instance
\* attribute after it
NormalizeProtectedPaths(plat, cls) ==
    IF plat # "Windows" THEN NoAttr
    ELSE Own({NormPath(plat, path) : path \in cls})

\* SafetyChecker.get_protected_directories(), as a set
GetProtectedDirectories(self) == ProtectedOf(classPD, instPD, self)

-----------------------------------------------------------------------------
(* backend/file_scanner.py: the classifier *)

\* "age_days" in config and age_days < config["age_days"], where
\* age_days = (current_time - last_modified) / (24 * 3600): the quotient is
\* below the threshold exactly when the difference is below threshold * 86400
TooYoung(config, current_time, last_modified) ==
    /\ "age_days" \in DOMAIN config
    /\ (current_time - last_modified) < config.age_days * SecondsPerDay

\* any(pattern.lower() in file_name for pattern in config["patterns"])
PatternHit(config, file_name) ==
    config.patterns # {} /\ \E pattern \in config.patterns : Contains(file_name, Lower(pattern))

\* file_ext in config["extensions"]
ExtensionHit(config, file_ext) ==
    config.extensions # {} /\ file_ext \in config.extensions

\* any(path.lower() in file_path for path in config["paths"])
PathHit(config, file_path) ==
    config.paths # {} /\ \E path \in config.paths : Contains(file_path, Lower(path))

\* the loop of _categorize_file with the age check made for extension matches too
RECURSIVE CategorizeFromAgedExtensions(_, _, _, _, _, _, _)
CategorizeFromAgedExtensions(rules, i, file_name, file_ext, file_path, last_modified, current_time) ==
    IF i > Len(rules) THEN None
    ELSE LET config == rules[i]
             next   == CategorizeFromAgedExtensions(rules, i + 1, file_name, file_ext, file_path,
                                                    last_modified, current_time)
         IN  IF PatternHit(config, file_name) \/ ExtensionHit(config, file_ext)
                \/ PathHit(config, file_path)
             THEN IF TooYoung(config, current_time, last_modified) THEN next
                  ELSE config.category
             ELSE next

\* the loop of _categorize_file from the i-th rule of the table on
RECURSIVE CategorizeFrom(_, _, _, _, _, _, _)
CategorizeFrom(rules, i, file_name, file_ext, file_path, last_modified, current_time) ==
    IF i > Len(rules) THEN None
    ELSE LET config == rules[i]
             next   == CategorizeFrom(rules, i + 1, file_name, file_ext, file_path,
                                      last_modified, current_time)
         IN  IF PatternHit(config, file_name)
             THEN IF TooYoung(config, current_time, last_modified) THEN next
                  ELSE config.category
             ELSE IF ExtensionHit(config, file_ext) THEN config.category
             ELSE IF PathHit(config, file_path)
             THEN IF TooYoung(config, current_time, last_modified) THEN next
                  ELSE config.category
             ELSE next

\* FileScanner._categorize_file(file_name, file_ext, file_path, last_modified)
\* over the rule table `rules`, with time.time() = current_time
CategorizeFile(rules, file_name, file_ext, file_path, last_modified, current_time) ==
    CategorizeFrom(rules, 1, file_name, file_ext, file_path, last_modified, current_time)

-----------------------------------------------------------------------------
-----------------------------------------------------------------------------
(* backend/file_scanner.py: per-file analysis, the walker, the deletion *)

\* the Optional[FileInfo] _analyze_file returns for a category: a sequence of
\* one FileInfo, or the empty sequence for None
Info(file_path, stat, category) ==
    IF category = None THEN <<>>
    ELSE << [path |-> file_path, size |-> stat.size, category |-> category,
             last_modified |-> stat.mtime, is_safe |-> TRUE, reason |-> ""] >>

\* _analyze_file without the question to the gate
AnalyzeUnchecked(file_path, file_name, file_ext, normalized_path, verdict, stat, current_time) ==
    IF stat.kind = "none" THEN <<>>
    ELSE Info(file_path, stat,
              CategorizeFile(CATEGORIES, file_name, file_ext, normalized_path,
                             stat.mtime, current_time))

\* _analyze_file once the name, the extension and the path are lowered,
\* `verdict` being what the gate answers and `stat` what os.stat returns
AnalyzeChecked(file_path, file_name, file_ext, normalized_path, verdict, stat, current_time) ==
    IF ~verdict.safe THEN <<>>
    ELSE IF stat.kind = "none" THEN <<>>   \* os.stat raises
    ELSE Info(file_path, stat,
              CategorizeFile(CATEGORIES, file_name, file_ext, normalized_path,
                             stat.mtime, current_time))

\* FileScanner._analyze_file(file_path)
AnalyzeFile(plat, exist, pd, current_time, file_path) ==
    AnalyzeChecked(file_path, Lower(PathName(plat, file_path)),
                   Lower(PathSuffix(plat, file_path)), Lower(NormPath(plat, file_path)),
                   IsSafeToDelete(plat, exist, pd, file_path), Stat(plat, exist, file_path),
                   current_time)

\* what a walk has produced: the FileInfo appended to scanned_files and the
\* directories passed to scan_progress_callback, both in order
NoWalk == [files |-> <<>>, progress |-> <<>>]
Walked(a, b) == [files |-> a.files \o b.files, progress |-> a.progress \o b.progress]

\* the default max_depth of _scan_directory
MAX_DEPTH == 10

\* "diretório protegido" in reason.lower(), the pruning test of _scan_directory
IsDirectoryReason(reason) == Contains(Lower(reason), "diretório protegido")

RECURSIVE ScanDirectory(_, _, _, _, _, _, _)
RECURSIVE ScanChecked(_, _, _, _, _, _, _, _, _)
RECURSIVE ScanEntries(_, _, _, _, _, _, _, _)
RECURSIVE ScanEntry(_, _, _, _, _, _, _, _)

\* the body of the loop of _scan_directory for an entry of the kind os.path
\* reports: a file is analyzed, a directory is walked
ScanEntry(plat, exist, pd, current_time, entry_path, kind, max_depth, current_depth) ==
    IF kind = "file"
    THEN [files |-> AnalyzeFile(plat, exist, pd, current_time, entry_path), progress |-> <<>>]
    ELSE IF kind = "dir"
    THEN ScanDirectory(plat, exist, pd, current_time, entry_path, max_depth, current_depth + 1)
    ELSE NoWalk

\* the loop of _scan_directory ended by the first entry that cannot be listed
ScanEntriesStopping(plat, exist, pd, current_time, directory, entries, max_depth, current_depth) ==
    IF Len(entries) = 0 THEN NoWalk
    ELSE IF Stat(plat, exist, PathJoin(plat, directory, Head(entries))).denied
    THEN ScanEntry(plat, exist, pd, current_time, PathJoin(plat, directory, Head(entries)),
                   Stat(plat, exist, PathJoin(plat, directory, Head(entries))).kind,
                   max_depth, current_depth)
    ELSE Walked(ScanEntry(plat, exist, pd, current_time,
                          PathJoin(plat, directory, Head(entries)),
                          Stat(plat, exist, PathJoin(plat, directory, Head(entries))).kind,
                          max_depth, current_depth),
                ScanEntries(plat, exist, pd, current_time, directory, Tail(entries),
                            max_depth, current_depth))

\* the loop of _scan_directory over the entries os.listdir returned
ScanEntries(plat, exist, pd, current_time, directory, entries, max_depth, current_depth) ==
    IF Len(entries) = 0 THEN NoWalk
    ELSE Walked(ScanEntry(plat, exist, pd, current_time,
                          PathJoin(plat, directory, Head(entries)),
                          Stat(plat, exist, PathJoin(plat, directory, Head(entries))).kind,
                          max_depth, current_depth),
                ScanEntries(plat, exist, pd, current_time, directory, Tail(entries),
                            max_depth, current_depth))

\* _scan_directory below the depth limit, `verdict` being what the gate
\* answers for the directory and `stat` what is stored under its path
ScanChecked(plat, exist, pd, current_time, directory, verdict, stat, max_depth, current_depth) ==
    IF ~verdict.safe /\ IsDirectoryReason(verdict.reason) THEN NoWalk
    ELSE IF stat.kind # "dir" THEN NoWalk   \* not exists(directory) or not isdir(directory)
    ELSE IF stat.denied THEN [files |-> <<>>, progress |-> <<directory>>]
    ELSE Walked([files |-> <<>>, progress |-> <<directory>>],
                ScanEntries(plat, exist, pd, current_time, directory,
                            ListDir(plat, exist, stat), max_depth, current_depth))

\* _scan_directory with the depth limit passed by one level
ScanDirectoryDeeper(plat, exist, pd, current_time, directory, max_depth, current_depth) ==
    IF current_depth > max_depth THEN NoWalk
    ELSE ScanChecked(plat, exist, pd, current_time, directory,
                     IsSafeToDelete(plat, exist, pd, directory), Stat(plat, exist, directory),
                     max_depth, current_depth)

\* FileScanner._scan_directory(directory, root_drive, max_depth, current_depth)
ScanDirectory(plat, exist, pd, current_time, directory, max_depth, current_depth) ==
    IF current_depth >= max_depth THEN NoWalk
    ELSE ScanChecked(plat, exist, pd, current_time, directory,
                     IsSafeToDelete(plat, exist, pd, directory), Stat(plat, exist, directory),
                     max_depth, current_depth)

\* the loop of scan_drives over the drives
RECURSIVE ScanDrives(_, _, _, _, _)
ScanDrives(plat, exist, pd, current_time, drives) ==
    IF Len(drives) = 0 THEN NoWalk
    ELSE Walked(ScanDirectory(plat, exist, pd, current_time, Head(drives) \o "\\", MAX_DEPTH, 0),
                ScanDrives(plat, exist, pd, current_time, Tail(drives)))

\* the sum of the sizes of a list of FileInfo
RECURSIVE SumSizes(_)
SumSizes(files) == IF Len(files) = 0 THEN 0 ELSE Head(files).size + SumSizes(Tail(files))

\* results[file_path] = value
Put(results, file_path, value) ==
    [p \in DOMAIN results \cup {file_path} |-> IF p = file_path THEN value ELSE results[p]]

\* os.remove succeeds on what is stored as `stat`: a regular file that is not locked
CanRemove(stat) == stat.kind = "file" /\ ~stat.locked

RECURSIVE DeleteFrom(_, _, _, _, _)

\* the body of the loop of delete_files without the question to the gate
DeleteUnchecked(plat, exist, pd, file_paths, results, verdict, stat) ==
    IF stat.kind # "none" /\ CanRemove(stat)
    THEN DeleteFrom(plat, exist \ {EntryPath(plat, stat)}, pd, Tail(file_paths),
                    Put(results, Head(file_paths), TRUE))
    ELSE DeleteFrom(plat, exist, pd, Tail(file_paths), Put(results, Head(file_paths), FALSE))

\* the body of the loop of delete_files marking a safe path true whether or
\* not it exists
DeleteMissing(plat, exist, pd, file_paths, results, verdict, stat) ==
    IF ~verdict.safe
    THEN DeleteFrom(plat, exist, pd, Tail(file_paths), Put(results, Head(file_paths), FALSE))
    ELSE IF stat.kind # "none" /\ CanRemove(stat)
    THEN DeleteFrom(plat, exist \ {EntryPath(plat, stat)}, pd, Tail(file_paths),
                    Put(results, Head(file_paths), TRUE))
    ELSE DeleteFrom(plat, exist, pd, Tail(file_paths),
                    Put(results, Head(file_paths), stat.kind = "none"))

\* the body of the loop of delete_files for the first of file_paths, `verdict`
\* being what the gate answers for it and `stat` what is stored under it:
\* os.remove raises for what it cannot remove
DeleteChecked(plat, exist, pd, file_paths, results, verdict, stat) ==
    IF ~verdict.safe
    THEN DeleteFrom(plat, exist, pd, Tail(file_paths), Put(results, Head(file_paths), FALSE))
    ELSE IF stat.kind # "none" /\ CanRemove(stat)
    THEN DeleteFrom(plat, exist \ {EntryPath(plat, stat)}, pd, Tail(file_paths),
                    Put(results, Head(file_paths), TRUE))
    ELSE DeleteFrom(plat, exist, pd, Tail(file_paths), Put(results, Head(file_paths), FALSE))

\* the loop of delete_files: the storage and the results after the paths
DeleteFrom(plat, exist, pd, file_paths, results) ==
    IF Len(file_paths) = 0 THEN [fs |-> exist, results |-> results]
    ELSE DeleteChecked(plat, exist, pd, file_paths, results,
                       IsSafeToDelete(plat, exist, pd, Head(file_paths)),
                       Stat(plat, exist, Head(file_paths)))

\* FileScanner.delete_files(file_paths): the storage after the call and the dict returned
DeleteFiles(plat, exist, pd, file_paths) == DeleteFrom(plat, exist, pd, file_paths, <<>>)

(* The operations.  `call` holds a call's arguments and result for the caller *)
(* to read; Return is the caller going on, after which the next call is made. *)

Idle == [op |-> "idle"]

\* the protected directories the scanner's gate reads
ScannerPD == ProtectedOf(classPD, instPD, Scanner)

\* the application after MainWindow.__init__: FileScanner() has made its
\* SafetyChecker, the window has made its own
InitOn(plat) ==
    /\ platform = plat
    /\ fs = DiskPaths(plat)
    /\ now = StartTime
    /\ classPD = PROTECTED_DIRECTORIES
    /\ created = {Scanner, Window}
    /\ instPD = [c \in Checkers |->
                    IF c \in {Scanner, Window}
                    THEN NormalizeProtectedPaths(plat, PROTECTED_DIRECTORIES)
                    ELSE NoAttr]
    /\ scanned_files = <<>>
    /\ total_size = 0
    /\ progress = <<>>
    /\ window_files = <<>>
    /\ call = Idle
    /\ session = [drives |-> <<>>, since |-> "start"]
    /\ workers = <<>>
    /\ signals = <<>>

Init == \E plat \in Platforms : InitOn(plat)

\* the caller has read the result of its call
Return ==
    /\ call # Idle
    /\ call' = Idle
    /\ UNCHANGED <<workers, signals, platform, fs, now, classPD, instPD, created, scanned_files, total_size,
                   progress, window_files, session>>

\* SafetyChecker(): __init__ of one more instance
NewChecker(self) ==
    /\ call = Idle
    /\ self \notin created
    /\ created' = created \cup {self}
    /\ instPD' = [instPD EXCEPT ![self] =
                     NormalizeProtectedPaths(platform, ProtectedOf(classPD, instPD, self))]
    /\ call' = [op |-> "SafetyChecker", self |-> self]
    /\ UNCHANGED <<workers, signals, platform, fs, now, classPD, scanned_files, total_size, progress,
                   window_files, session>>

\* SafetyChecker.add_custom_protected_directory(directory): add() on the set
\* self.PROTECTED_DIRECTORIES names, the instance's own or the class's
AddCustomProtectedDirectory(self, directory) ==
    LET normalized == NormPath(platform, directory)
    IN  /\ call = Idle
        /\ self \in created
        /\ IF instPD[self].own
           THEN /\ instPD' = [instPD EXCEPT ![self].dirs = @ \cup {normalized}]
                /\ UNCHANGED classPD
           ELSE /\ classPD' = classPD \cup {normalized}
                /\ UNCHANGED instPD
        /\ call' = [op |-> "add_custom_protected_directory", self |-> self,
                    directory |-> directory, classBefore |-> classPD, instBefore |-> instPD]
        /\ session' = [session EXCEPT !.since = "other"]
        /\ UNCHANGED <<workers, signals, platform, fs, now, created, scanned_files, total_size, progress,
                       window_files>>

\* SafetyChecker.is_safe_to_delete(file_path)
IsSafeCall(self, file_path) ==
    /\ call = Idle
    /\ self \in created
    /\ call' = [op |-> "is_safe_to_delete", self |-> self, file_path |-> file_path,
                ret |-> IsSafeToDelete(platform, fs, ProtectedOf(classPD, instPD, self), file_path)]
    /\ UNCHANGED <<workers, signals, platform, fs, now, classPD, instPD, created, scanned_files, total_size,
                   progress, window_files, session>>

\* scan_drives without the reset of scanned_files and total_size at its start
ScanAppended(drives, walk) ==
    /\ scanned_files' = scanned_files \o walk.files
    /\ total_size' = total_size + SumSizes(walk.files)
    /\ progress' = walk.progress
    /\ window_files' = scanned_files \o walk.files
    /\ call' = [op |-> "scan_drives", drives |-> drives, before |-> scanned_files,
                last |-> session]
    /\ session' = [drives |-> drives, since |-> "scan"]
    /\ UNCHANGED <<workers, signals, platform, fs, now, classPD, instPD, created>>

\* scan_drives once the walk over the drives is made: scanned_files and
\* total_size start empty and take what the walk found, and
\* _on_scan_finished takes the list scan_drives returned
ScanFinished(drives, walk) ==
    /\ scanned_files' = walk.files
    /\ total_size' = SumSizes(walk.files)
    /\ progress' = walk.progress
    /\ window_files' = walk.files
    /\ call' = [op |-> "scan_drives", drives |-> drives, before |-> scanned_files,
                last |-> session]
    /\ session' = [drives |-> drives, since |-> "scan"]
    /\ UNCHANGED <<workers, signals, platform, fs, now, classPD, instPD, created>>

\* FileScanner.scan_drives(drives), as MainWindow._start_scan runs it in a
\* ScanThread, and _on_scan_finished
StartScan(drives) ==
    /\ call = Idle
    /\ ScanFinished(drives, ScanDrives(platform, fs, ScannerPD, now, drives))

\* delete_files once the loop has run
Deleted(file_paths, done) ==
    /\ fs' = done.fs
    /\ call' = [op |-> "delete_files", file_paths |-> file_paths, ret |-> done.results,
                fsBefore |-> fs]
    /\ session' = [session EXCEPT !.since = IF @ = "scan" THEN "delete" ELSE "other"]
    /\ UNCHANGED <<workers, signals, platform, now, classPD, instPD, created, scanned_files, total_size,
                   progress, window_files>>

\* FileScanner.delete_files(file_paths)
DeleteFilesCall(file_paths) ==
    /\ call = Idle
    /\ Deleted(file_paths, DeleteFiles(platform, fs, ScannerPD, file_paths))

\* _execute_cleanup once delete_files has returned: the rows of the deleted
\* files leave the table
Cleaned(file_paths, done) ==
    /\ fs' = done.fs
    /\ window_files' = SelectSeq(window_files,
                                 LAMBDA f : f.path \notin DOMAIN done.results
                                            \/ ~done.results[f.path])
    /\ call' = [op |-> "delete_files", file_paths |-> file_paths, ret |-> done.results,
                fsBefore |-> fs]
    /\ session' = [session EXCEPT !.since = IF @ = "scan" THEN "delete" ELSE "other"]
    /\ UNCHANGED <<workers, signals, platform, now, classPD, instPD, created, scanned_files, total_size,
                   progress>>

\* MainWindow._execute_cleanup(file_paths)
ExecuteCleanup(file_paths) ==
    /\ call = Idle
    /\ Cleaned(file_paths, DeleteFiles(platform, fs, ScannerPD, file_paths))

\* MainWindow._clean_all, confirmed: every row
CleanAll ==
    /\ Len(window_files) > 0
    /\ ExecuteCleanup([i \in 1..Len(window_files) |-> window_files[i].path])

\* the rows checked in the table, at most
MaxSelected == 1

\* the sub-list of the rows whose index is in `rows`, in the order of the table
RECURSIVE Selected(_, _, _)
Selected(files, rows, i) ==
    IF i > Len(files) THEN <<>>
    ELSE (IF i \in rows THEN <<files[i].path>> ELSE <<>>) \o Selected(files, rows, i + 1)

\* MainWindow._clean_selected, confirmed: the checked rows
CleanSelected(rows) ==
    /\ rows # {}
    /\ Cardinality(rows) <= MaxSelected
    /\ ExecuteCleanup(Selected(window_files, rows, 1))

\* the days the clock advances over
MaxDays == 1

\* time passes: a day
Tick ==
    /\ call = Idle
    /\ now < StartTime + MaxDays * SecondsPerDay
    /\ now' = now + SecondsPerDay
    /\ UNCHANGED <<workers, signals, platform, fs, classPD, instPD, created, scanned_files, total_size, progress,
                   window_files, call, session>>

\* The application: the window's scan and cleanup handlers, the clock, and a
\* caller protecting one more directory on the scanner's gate.
Next ==
    \/ \E drives \in DriveLists(platform) : StartScan(drives)
    \/ CleanAll
    \/ \E rows \in SUBSET (1..Len(window_files)) : CleanSelected(rows)
    \/ \E directory \in CustomDirs(platform) : AddCustomProtectedDirectory(Scanner, directory)
    \/ Tick
    \/ Return

Spec == Init /\ [][Next]_vars

\* the length of the request lists of delete_files
MaxRequest == 2

\* the request lists of delete_files
Requests(plat) == UNION {[1..n -> CallPaths(plat)] : n \in 0..MaxRequest}

\* The deletion executor called directly, with any request list.
NextDelete ==
    \/ \E file_paths \in Requests(platform) : DeleteFilesCall(file_paths)
    \/ \E directory \in CustomDirs(platform) : AddCustomProtectedDirectory(Scanner, directory)
    \/ Return

SpecDelete == Init /\ [][NextDelete]_vars

\* The gate called directly on any of its instances.
NextGate ==
    \/ \E self \in Checkers : NewChecker(self)
    \/ \E self \in Checkers, directory \in CustomDirs(platform) :
          AddCustomProtectedDirectory(self, directory)
    \/ \E self \in Checkers, file_path \in GatePaths(platform) : IsSafeCall(self, file_path)
    \/ Return

SpecGate == Init /\ [][NextGate]_vars

-----------------------------------------------------------------------------
(* The walker called directly: _scan_directory on a directory of the storage, *)
(* at depth 0, with a max_depth of the caller's choice or the default.        *)

\* the directories _scan_directory is called with
WalkDirs(plat) == {p \in DiskPaths(plat) : DiskIndex[plat][p].kind = "dir"}

\* the max_depth arguments: small limits and the default
WalkDepths == {1, 2, MAX_DEPTH}

\* the records accumulated by earlier calls when a call is made, fewer than
MaxWalked == 1

\* _scan_directory once the walk is made: the records are appended to
\* scanned_files and their sizes added to total_size
WalkFinished(directory, max_depth, walk) ==
    /\ scanned_files' = scanned_files \o walk.files
    /\ total_size' = total_size + SumSizes(walk.files)
    /\ progress' = walk.progress
    /\ call' = [op |-> "_scan_directory", directory |-> directory, max_depth |-> max_depth,
                files |-> walk.files]
    /\ session' = [session EXCEPT !.since = "other"]
    /\ UNCHANGED <<workers, signals, platform, fs, now, classPD, instPD, created, window_files>>

\* FileScanner._scan_directory(directory, root_drive, max_depth), current_depth = 0
ScanDirectoryCall(directory, max_depth) ==
    /\ call = Idle
    /\ Len(scanned_files) < MaxWalked
    /\ WalkFinished(directory, max_depth,
                    ScanDirectory(platform, fs, ScannerPD, now, directory, max_depth, 0))

NextWalk ==
    \/ \E directory \in WalkDirs(platform), max_depth \in WalkDepths :
          ScanDirectoryCall(directory, max_depth)
    \/ \E directory \in CustomDirs(platform) : AddCustomProtectedDirectory(Scanner, directory)
    \/ Return

SpecWalk == Init /\ [][NextWalk]_vars

-----------------------------------------------------------------------------
(* frontend/main_window.py: the scan run in a ScanThread.  The window's       *)
(* handlers run one after another in the window's thread; the steps of a scan *)
(* thread interleave with them.                                               *)

\* the ScanThread objects started, at most
MaxScans == 2

\* a ScanThread after start(): run() has not reached scan_drives yet
Worker(drives) == [drives |-> drives, phase |-> "started", files |-> <<>>, notes |-> <<>>]

\* what a scan thread notifies: a call of the progress callback, or a signal emitted
ProgressNote(directory) == [signal |-> "progress", directory |-> directory, files |-> <<>>]
FinishedNote(files) == [signal |-> "finished", directory |-> "", files |-> files]
ErrorNote == [signal |-> "error", directory |-> "", files |-> <<>>]
ProgressNotes(directories) == [i \in 1..Len(directories) |-> ProgressNote(directories[i])]

\* self.scan_thread and self.scan_thread.isRunning(): true from start() until
\* run() has returned
IsRunning(threads) == Len(threads) > 0 /\ threads[Len(threads)].phase # "exited"

\* _start_scan past its guard: the table is emptied, a ScanThread is made and started
ScanStarted(drives) ==
    /\ Len(workers) < MaxScans
    /\ window_files' = <<>>
    /\ workers' = Append(workers, Worker(drives))
    /\ call' = [op |-> "_start_scan", drives |-> drives, ret |-> "started", before |-> workers]
    /\ UNCHANGED <<signals, platform, fs, now, classPD, instPD, created, scanned_files,
                   total_size, progress, session>>

\* _start_scan stopped by its guard: the warning, and nothing else
ScanRejected(drives) ==
    /\ call' = [op |-> "_start_scan", drives |-> drives, ret |-> "rejected", before |-> workers]
    /\ UNCHANGED <<workers, signals, platform, fs, now, classPD, instPD, created, scanned_files,
                   total_size, progress, window_files, session>>

\* _start_scan without its guard
RequestScanUnguarded(drives) ==
    /\ call = Idle
    /\ ScanStarted(drives)

\* MainWindow._start_scan, with the drives of the combo box
RequestScan(drives) ==
    /\ call = Idle
    /\ IF IsRunning(workers) THEN ScanRejected(drives) ELSE ScanStarted(drives)

\* scan_drives begins: scanned_files and total_size are reset
WorkerBegin(w) ==
    /\ workers[w].phase = "started"
    /\ scanned_files' = <<>>
    /\ total_size' = 0
    /\ workers' = [workers EXCEPT ![w].phase = "walking"]
    /\ UNCHANGED <<signals, platform, fs, now, classPD, instPD, created, progress,
                   window_files, call, session>>

\* the walk of scan_drives made and its list returned: the records are
\* appended and their sizes added, the progress callback was called for each
\* directory entered
WorkerWalked(w, walk) ==
    /\ scanned_files' = scanned_files \o walk.files
    /\ total_size' = total_size + SumSizes(walk.files)
    /\ progress' = walk.progress
    /\ workers' = [workers EXCEPT ![w].phase = "returned",
                                  ![w].files = scanned_files \o walk.files,
                                  ![w].notes = ProgressNotes(walk.progress)]
    /\ UNCHANGED <<signals, platform, fs, now, classPD, instPD, created, window_files, call,
                   session>>

\* the loop of scan_drives over the drives, in the scan thread
WorkerWalk(w) ==
    /\ workers[w].phase = "walking"
    /\ WorkerWalked(w, ScanDrives(platform, fs, ScannerPD, now, workers[w].drives))

\* an exception leaves scan_drives before its first directory (the loop over
\* `drives` raising, say) and run() catches it
WorkerRaise(w) ==
    /\ workers[w].phase = "walking"
    /\ workers' = [workers EXCEPT ![w].phase = "raised"]
    /\ UNCHANGED <<signals, platform, fs, now, classPD, instPD, created, scanned_files,
                   total_size, progress, window_files, call, session>>

\* the signal run() emits: finished with the list scan_drives returned, or
\* error in the except branch
TerminalNote(worker) ==
    IF worker.phase = "returned" THEN FinishedNote(worker.files) ELSE ErrorNote

\* run() emitting error after the signal it emits
EmittedTwice(w, note) ==
    /\ signals' = signals \o <<note, ErrorNote>>
    /\ workers' = [workers EXCEPT ![w].phase = "emitted", ![w].notes = @ \o <<note, ErrorNote>>]
    /\ UNCHANGED <<platform, fs, now, classPD, instPD, created, scanned_files, total_size,
                   progress, window_files, call, session>>

\* the signal is queued for the window's thread
Emitted(w, note) ==
    /\ signals' = Append(signals, note)
    /\ workers' = [workers EXCEPT ![w].phase = "emitted", ![w].notes = Append(@, note)]
    /\ UNCHANGED <<platform, fs, now, classPD, instPD, created, scanned_files, total_size,
                   progress, window_files, call, session>>

\* ScanThread.run: self.finished.emit(files), or self.error.emit(str(e))
WorkerEmit(w) ==
    /\ workers[w].phase \in {"returned", "raised"}
    /\ Emitted(w, TerminalNote(workers[w]))

\* run() returns: the thread is no longer running
WorkerExit(w) ==
    /\ workers[w].phase = "emitted"
    /\ workers' = [workers EXCEPT ![w].phase = "exited"]
    /\ UNCHANGED <<signals, platform, fs, now, classPD, instPD, created, scanned_files,
                   total_size, progress, window_files, call, session>>

\* a step of a scan thread
WorkerNext ==
    \E w \in 1..Len(workers) :
        \/ WorkerBegin(w)
        \/ WorkerRaise(w)
        \/ WorkerWalk(w)
        \/ WorkerEmit(w)
        \/ WorkerExit(w)

\* MainWindow._on_scan_finished(files), the slot of the finished signal
OnScanFinished ==
    /\ call = Idle
    /\ Len(signals) > 0
    /\ Head(signals).signal = "finished"
    /\ window_files' = Head(signals).files
    /\ signals' = Tail(signals)
    /\ call' = [op |-> "_on_scan_finished", files |-> Head(signals).files]
    /\ UNCHANGED <<workers, platform, fs, now, classPD, instPD, created, scanned_files,
                   total_size, progress, session>>

\* MainWindow._on_scan_error(error_msg), the slot of the error signal
OnScanError ==
    /\ call = Idle
    /\ Len(signals) > 0
    /\ Head(signals).signal = "error"
    /\ signals' = Tail(signals)
    /\ call' = [op |-> "_on_scan_error"]
    /\ UNCHANGED <<workers, platform, fs, now, classPD, instPD, created, scanned_files,
                   total_size, progress, window_files, session>>

\* The window with its scan threads: scan and cleanup requests at any moment,
\* the steps of the threads, the delivery of their signals.
NextThread ==
    \/ \E drives \in DriveLists(platform) : RequestScan(drives)
    \/ \E w \in 1..Len(workers) : WorkerBegin(w)
    \/ \E w \in 1..Len(workers) : WorkerWalk(w)
    \/ \E w \in 1..Len(workers) : WorkerRaise(w)
    \/ \E w \in 1..Len(workers) : WorkerEmit(w)
    \/ \E w \in 1..Len(workers) : WorkerExit(w)
    \/ OnScanFinished
    \/ OnScanError
    \/ CleanAll
    \/ \E rows \in SUBSET (1..Len(window_files)) : CleanSelected(rows)
    \/ Return

\* a started thread is scheduled until run() has returned
SpecThread == Init /\ [][NextThread]_vars /\ WF_vars(WorkerNext)

-----------------------------------------------------------------------------
(* The classifier called directly.  The call's arguments are drawn at the     *)
(* start: a rule table, a file (its name, extension and path taken from the   *)
(* path the way _analyze_file takes them) and the file's age.                 *)

\* a rule table a test of _categorize_file sets as CATEGORIES: its first rule
\* has an age threshold together with patterns, extensions and paths
TestRules ==
    << [category |-> "aged",
        patterns |-> {"old"},
        extensions |-> {".iso"},
        paths |-> {"Archive"},
        age_days |-> 90],
       [category |-> "rest",
        patterns |-> {"old", "arch"},
        extensions |-> {".txt"},
        paths |-> {"archive"}] >>

\* the rule tables _categorize_file reads
RuleTables == {CATEGORIES, TestRules}

\* the files _categorize_file is called for
RuleFiles ==
    { "D:\\Downloads\\new.iso", "D:\\Downloads\\movie.mkv", "D:\\Archive\\a.dat",
      "D:\\Data\\old.dat", "D:\\Data\\old.iso", "D:\\Data\\a.iso", "D:\\Data\\a.txt",
      "D:\\Data\\report.dat", "D:\\Data\\cAcHe.dat" }

\* their ages in days
RuleAges == {10, 89, 90, 91}

\* the arguments of a call of _categorize_file for the file at file_path
Arguments(rules, file_path, last_modified) ==
    [op |-> "arguments", rules |-> rules, file |-> file_path,
     file_name |-> Lower(PathName("Windows", file_path)),
     file_ext |-> Lower(PathSuffix("Windows", file_path)),
     file_path |-> Lower(NormPath("Windows", file_path)),
     last_modified |-> last_modified]

InitRules ==
    /\ platform = "Windows"
    /\ fs = DiskPaths("Windows")
    /\ now = StartTime
    /\ classPD = PROTECTED_DIRECTORIES
    /\ created = {Scanner, Window}
    /\ instPD = [c \in Checkers |->
                    IF c \in {Scanner, Window}
                    THEN NormalizeProtectedPaths("Windows", PROTECTED_DIRECTORIES)
                    ELSE NoAttr]
    /\ scanned_files = <<>>
    /\ total_size = 0
    /\ progress = <<>>
    /\ window_files = <<>>
    /\ session = [drives |-> <<>>, since |-> "start"]
    /\ workers = <<>>
    /\ signals = <<>>
    /\ \E rules \in RuleTables, file_path \in RuleFiles, days \in RuleAges :
          call = Arguments(rules, file_path, StartTime - days * SecondsPerDay)

\* FileScanner._categorize_file(file_name, file_ext, file_path, last_modified)
CategorizeCall ==
    /\ call.op = "arguments"
    /\ call' = [op |-> "_categorize_file", rules |-> call.rules, file |-> call.file,
                file_name |-> call.file_name, file_ext |-> call.file_ext,
                file_path |-> call.file_path, last_modified |-> call.last_modified,
                ret |-> CategorizeFile(call.rules, call.file_name, call.file_ext,
                                       call.file_path, call.last_modified, now)]
    /\ UNCHANGED <<workers, signals, platform, fs, now, classPD, instPD, created, scanned_files, total_size,
                   progress, window_files, session>>

NextRules == CategorizeCall

SpecRules == InitRules /\ [][NextRules]_vars

-----------------------------------------------------------------------------
(* What the properties below speak of *)

\* a name as the platform's filesystem compares it: without regard to letter
\* case on Windows, as written elsewhere
Fold(plat, s) == IF plat = "Windows" THEN Lower(s) ELSE s

\* the path lies below the directory in the tree of the filesystem
Beneath(plat, path, directory) ==
    LET p == Fold(plat, AbsPath(plat, path))
        d == Fold(plat, AbsPath(plat, directory))
    IN  IF EndsWith(d, Sep(plat)) THEN StartsWith(p, d) /\ p # d
        ELSE StartsWith(p, d \o Sep(plat))

\* the path is the directory or lies below it
Within(plat, path, directory) ==
    \/ Fold(plat, AbsPath(plat, path)) = Fold(plat, AbsPath(plat, directory))
    \/ Beneath(plat, path, directory)

\* the path contains a temporary-location exception substring
Waived(plat, path) == IsTemporaryFile(AbsPath(plat, path))

\* the stored file a path names on the storage `exist` (none: the empty set)
FileOf(exist, path) == Stored(platform, exist, AbsPath(platform, path))

\* the set of the elements of a sequence
Range(seq) == {seq[i] : i \in 1..Len(seq)}

\* a rule's match condition for a file at an age (the arguments c of a call)
Accepts(rule, c, current_time) ==
    IF PatternHit(rule, c.file_name) THEN ~TooYoung(rule, current_time, c.last_modified)
    ELSE IF ExtensionHit(rule, c.file_ext) THEN TRUE
    ELSE PathHit(rule, c.file_path) /\ ~TooYoung(rule, current_time, c.last_modified)

\* the category of the first rule from the i-th on, in declared order, whose
\* match condition holds; None when there is none
FirstFrom(rules, i, c, current_time) ==
    LET hits == {j \in i..Len(rules) : Accepts(rules[j], c, current_time)}
    IN  IF hits = {} THEN None
        ELSE rules[CHOOSE j \in hits : \A k \in hits : j <= k].category

\* evaluation reaches the i-th rule: no rule before it matched
Reached(rules, i, c, current_time) ==
    \A j \in 1..(i - 1) : ~Accepts(rules[j], c, current_time)

-----------------------------------------------------------------------------
(* C1 *)

\* the storage when delete_files examines its i-th path: after the paths before it
StorageAt(i) ==
    DeleteFiles(platform, call.fsBefore, ScannerPD, SubSeq(call.file_paths, 1, i - 1)).fs

\* the gate's verdict on the i-th path at that moment
UnsafeAt(i) == ~IsSafeToDelete(platform, StorageAt(i), ScannerPD, call.file_paths[i]).safe

\* C1: every path of a delete_files request that is_safe_to_delete judges
\* unsafe at the moment the call examines it is mapped to false in the result
\* and its file is still on the storage after the call, whatever an earlier
\* scan recorded about it.
C1_DeleteRevalidates ==
    call.op = "delete_files" =>
        \A i \in 1..Len(call.file_paths) :
            UnsafeAt(i) =>
                /\ call.ret[call.file_paths[i]] = FALSE
                /\ FileOf(call.fsBefore, call.file_paths[i]) \subseteq fs

\* C1 witness: a cleanup was asked to delete a file the last scan recorded as
\* safe, the gate judges it unsafe now, the result says false and the file is
\* still there.
C1_Witness ==
    /\ call.op = "delete_files"
    /\ \E i \in 1..Len(call.file_paths) :
          /\ \E k \in 1..Len(scanned_files) :
                scanned_files[k].path = call.file_paths[i] /\ scanned_files[k].is_safe
          /\ UnsafeAt(i)
          /\ call.ret[call.file_paths[i]] = FALSE
          /\ FileOf(call.fsBefore, call.file_paths[i]) # {}
          /\ FileOf(call.fsBefore, call.file_paths[i]) \subseteq fs

-----------------------------------------------------------------------------
(* C2 *)

\* the path lies below a protected directory of the scanner's gate and no
\* temporary-location exception waives the protection
HardProtected(path) ==
    /\ \E d \in ScannerPD : Beneath(platform, path, d)
    /\ ~Waived(platform, path)

\* C2: when a scan returns, no record of its result has a path below a
\* hard-protected directory, and no progress notification was made for a
\* hard-protected directory or a directory below one.
C2_NoRecordBeneathProtected ==
    call.op = "scan_drives" =>
        /\ \A k \in 1..Len(scanned_files) : ~HardProtected(scanned_files[k].path)
        /\ \A k \in 1..Len(progress) :
              ~(/\ \E d \in ScannerPD : Within(platform, progress[k], d)
                /\ ~Waived(platform, progress[k]))

-----------------------------------------------------------------------------
(* C3 *)

\* C3: is_safe_to_delete answers safe=false for every path that lies below a
\* directory of the checker's protected set (a default or one added with
\* add_custom_protected_directory), unless the path contains a
\* temporary-location exception substring.
C3_NestedPathsUnsafe ==
    call.op = "is_safe_to_delete" =>
        \A d \in ProtectedOf(classPD, instPD, call.self) :
            (Beneath(platform, call.file_path, d) /\ ~Waived(platform, call.file_path))
                => ~call.ret.safe

-----------------------------------------------------------------------------
(* C4 *)

\* C4: is_safe_to_delete answers safe=false for every path whose filename,
\* compared without regard to letter case, is a protected filename, also when
\* the path lies in a temporary location.
C4_FilenameNeverWaived ==
    call.op = "is_safe_to_delete" =>
        (Lower(PathNameOf(platform, call.file_path)) \in PROTECTED_FILENAMES
            => ~call.ret.safe)

\* C4 witness: a protected filename in a temporary location was judged unsafe
\* for its name.
C4_Witness ==
    /\ call.op = "is_safe_to_delete"
    /\ Lower(PathNameOf(platform, call.file_path)) \in PROTECTED_FILENAMES
    /\ Waived(platform, call.file_path)
    /\ ~call.ret.safe
    /\ call.ret.reason = ReasonFilename(PathNameOf(platform, call.file_path))

-----------------------------------------------------------------------------
(* C5 *)

\* the arguments _categorize_file gets for a record's file
RecordArguments(f) == Arguments(CATEGORIES, f.path, f.last_modified)

\* C5: when a scan returns, every record of its result has a path
\* is_safe_to_delete judges safe, is_safe true, an empty reason, and as its
\* category that of the first rule of the table, in declared order, whose match
\* condition holds for the file (so there is such a rule).
C5_RecordsSafeAndCategorized ==
    call.op = "scan_drives" =>
        \A k \in 1..Len(scanned_files) :
            LET f == scanned_files[k]
            IN  /\ IsSafeToDelete(platform, fs, ScannerPD, f.path).safe
                /\ f.is_safe = TRUE
                /\ f.reason = ""
                /\ f.category # None
                /\ f.category = FirstFrom(CATEGORIES, 1, RecordArguments(f), now)

\* C5 witness: a scan returned records of several categories, one of them by
\* a rule that is not the first of the table.
C5_Witness ==
    /\ call.op = "scan_drives"
    /\ \E k \in 1..Len(scanned_files) : scanned_files[k].category = "downloads_old"
    /\ \E k \in 1..Len(scanned_files) : scanned_files[k].category = "logs"

-----------------------------------------------------------------------------
(* C6 *)

\* C6: add_custom_protected_directory on one checker leaves the protected set
\* of every other checker, and its verdict on every path, as they were, and a
\* checker constructed afterwards has the default protected set.
C6_CustomDirectoryIsPerInstance ==
    /\ call.op = "add_custom_protected_directory" =>
          \A other \in created \ {call.self} :
              /\ ProtectedOf(classPD, instPD, other)
                    = ProtectedOf(call.classBefore, call.instBefore, other)
              /\ \A file_path \in GatePaths(platform) :
                    IsSafeToDelete(platform, fs, ProtectedOf(classPD, instPD, other), file_path)
                    = IsSafeToDelete(platform, fs,
                                     ProtectedOf(call.classBefore, call.instBefore, other),
                                     file_path)
    /\ call.op = "SafetyChecker" =>
          ProtectedOf(classPD, instPD, call.self)
              = {NormPath(platform, d) : d \in PROTECTED_DIRECTORIES}

-----------------------------------------------------------------------------
(* C7 *)

\* C7: delete_files returns a mapping with an entry for every requested path;
\* an entry is true only if the path's file was there before the call and is
\* gone after it; it is false when the path was unsafe, did not exist or could
\* not be removed; a request of an existing, unprotected, removable file and a
\* nonexistent one yields true for the first, which is removed, and false for
\* the second.
C7_DeleteReportsEveryPath ==
    call.op = "delete_files" =>
        LET paths == Range(call.file_paths)
            before == call.fsBefore
            unsafe(p) == ~IsSafeToDelete(platform, before, ScannerPD, p).safe
            missing(p) == ~Exists(platform, before, p)
            stuck(p) == Exists(platform, before, p) /\ ~CanRemove(Stat(platform, before, p))
        IN  /\ DOMAIN call.ret = paths
            /\ \A p \in paths : call.ret[p] \in BOOLEAN
            /\ \A p \in paths :
                  call.ret[p] = TRUE => (FileOf(before, p) # {} /\ FileOf(fs, p) = {})
            /\ \A p \in paths :
                  (unsafe(p) \/ missing(p) \/ stuck(p)) => call.ret[p] = FALSE
            /\ \A a, b \in paths :
                  (/\ Len(call.file_paths) = 2
                   /\ ~unsafe(a) /\ ~missing(a) /\ ~stuck(a)
                   /\ missing(b))
                  => (call.ret[a] = TRUE /\ call.ret[b] = FALSE /\ FileOf(fs, a) = {})

\* C7 witness: a request of an existing unprotected file and a nonexistent one
\* returned true and false, and the first file is gone.
C7_Witness ==
    /\ call.op = "delete_files"
    /\ Len(call.file_paths) = 2
    /\ LET a == call.file_paths[1]
           b == call.file_paths[2]
       IN  /\ FileOf(call.fsBefore, a) # {}
           /\ FileOf(call.fsBefore, b) = {}
           /\ call.ret[a] = TRUE
           /\ call.ret[b] = FALSE
           /\ FileOf(fs, a) = {}

-----------------------------------------------------------------------------
(* C8 *)

\* the orders a list of n paths can be given in
Orders(n) == {o \in [1..n -> 1..n] : \A i, j \in 1..n : o[i] = o[j] => i = j}

\* C8: the result mapping and the files removed are the same for every order
\* of the request list, and a path whose file the call removed is reported
\* true.
C8_DeleteOrderIndependent ==
    call.op = "delete_files" =>
        /\ \A o \in Orders(Len(call.file_paths)) :
              LET other == DeleteFiles(platform, call.fsBefore, ScannerPD,
                                       [i \in 1..Len(call.file_paths) |-> call.file_paths[o[i]]])
              IN  other.results = call.ret /\ other.fs = fs
        /\ \A p \in Range(call.file_paths) :
              (FileOf(call.fsBefore, p) # {} /\ FileOf(fs, p) = {}) => call.ret[p] = TRUE

-----------------------------------------------------------------------------
(* C9 *)

\* a scan has returned that follows a scan of the same drives with one
\* delete_files call in between and no other change but the passing of time
Rescan ==
    /\ call.op = "scan_drives"
    /\ call.last.since = "delete"
    /\ call.last.drives = call.drives

\* the records of the scan before whose files are still on the storage
Survivors == SelectSeq(call.before, LAMBDA f : FileOf(fs, f.path) # {})

\* the rule of a category has an age threshold the file has reached now
AgedInto(f) ==
    \E i \in 1..Len(CATEGORIES) :
        /\ CATEGORIES[i].category = f.category
        /\ "age_days" \in DOMAIN CATEGORIES[i]
        /\ ~TooYoung(CATEGORIES[i], now, f.last_modified)

\* C9 as stated: the second scan returns exactly the records of the undeleted
\* files (M - N of them), each with the same category as before.
C9_RescanExactlySurvivors ==
    Rescan => scanned_files = Survivors

\* C9 amended: the second scan returns the records of the undeleted files, in
\* the same order and each with the same category as before, none for a
\* deleted file, and any further record is a file that the rule of its
\* category accepts by an age threshold the file has reached by now.
C9_RescanKeepsSurvivors ==
    Rescan =>
        /\ SelectSeq(scanned_files, LAMBDA f : f \in Range(call.before)) = Survivors
        /\ \A k \in 1..Len(scanned_files) :
              /\ FileOf(fs, scanned_files[k].path) # {}
              /\ scanned_files[k] \notin Range(call.before) => AgedInto(scanned_files[k])

\* C9 witness: a second scan after a delete_files call that removed some of
\* the records' files and left others.
C9_Witness ==
    /\ Rescan
    /\ Len(Survivors) > 0
    /\ Len(Survivors) < Len(call.before)
    /\ scanned_files = Survivors

-----------------------------------------------------------------------------
(* C10 *)

\* C10: in _categorize_file, when evaluation reaches a rule, a file matching it
\* only by extension gets the rule's category at any age; a file matching it by
\* name or path and not by extension gets the rule's category when the rule has
\* no age threshold or the file has reached it, and otherwise the answer is
\* that of the rules after it; with the table of the program, a file matched
\* only by the path of the downloads rule is uncategorized at 10 days and
\* downloads_old at 91 days.
C10_AgeThresholdNotForExtensions ==
    call.op = "_categorize_file" =>
        LET rules == call.rules
            name(i) == PatternHit(rules[i], call.file_name)
            ext(i)  == ExtensionHit(rules[i], call.file_ext)
            path(i) == PathHit(rules[i], call.file_path)
            young(i) == TooYoung(rules[i], now, call.last_modified)
            days == (now - call.last_modified) \div SecondsPerDay
        IN  /\ \A i \in 1..Len(rules) :
                  Reached(rules, i, call, now) =>
                      /\ (ext(i) /\ ~name(i) /\ ~path(i)) => call.ret = rules[i].category
                      /\ ((name(i) \/ path(i)) /\ ~ext(i) /\ ~young(i))
                            => call.ret = rules[i].category
                      /\ ((name(i) \/ path(i)) /\ ~ext(i) /\ young(i))
                            => call.ret = FirstFrom(rules, i + 1, call, now)
            /\ (/\ rules = CATEGORIES
                /\ \A i \in 1..Len(rules) :
                      (name(i) \/ ext(i) \/ path(i)) <=> rules[i].category = "downloads_old")
               => /\ days = 10 => call.ret = None
                  /\ days = 91 => call.ret = "downloads_old"

\* C10 witness: a file younger than a rule's age threshold that matches the
\* rule only by extension was given the rule's category.
C10_Witness ==
    /\ call.op = "_categorize_file"
    /\ \E i \in 1..Len(call.rules) :
          /\ Reached(call.rules, i, call, now)
          /\ ExtensionHit(call.rules[i], call.file_ext)
          /\ ~PatternHit(call.rules[i], call.file_name)
          /\ ~PathHit(call.rules[i], call.file_path)
          /\ TooYoung(call.rules[i], now, call.last_modified)
          /\ call.ret = call.rules[i].category

-----------------------------------------------------------------------------
(* C11 *)

\* _scan_directory leaves the directory alone: the gate names a protected
\* directory for it, or it is no directory
Pruned(directory) ==
    \/ /\ ~IsSafeToDelete(platform, fs, ScannerPD, directory).safe
       /\ IsDirectoryReason(IsSafeToDelete(platform, fs, ScannerPD, directory).reason)
    \/ Stat(platform, fs, directory).kind # "dir"

\* the items the walk failed on: the directories it entered (a progress
\* notification was made) whose listing raises PermissionError
FailedItems == {d \in Range(progress) : Stat(platform, fs, d).denied}

\* the roots scan_drives walks
RootsOf(drives) == {drives[i] \o "\\" : i \in 1..Len(drives)}

\* the entry was visited and reported: a file's record, if _analyze_file gives
\* one, is in the result; a directory that is not pruned was entered
Visited(e) ==
    IF e.kind = "file"
    THEN Range(AnalyzeFile(platform, fs, ScannerPD, now, EntryPath(platform, e)))
            \subseteq Range(scanned_files)
    ELSE Pruned(EntryPath(platform, e)) \/ EntryPath(platform, e) \in Range(progress)

\* C11: when a scan returns (it always returns: no exception leaves
\* scan_drives), for every directory whose listing raised a permission error,
\* every other entry of its parent directory was visited: the record of each
\* sibling file that is safe and categorized is in the result and each
\* sibling directory that is not pruned was entered; and every root of the
\* request that is not pruned was entered.
C11_FailureSkipsOnlyTheItem ==
    call.op = "scan_drives" =>
        /\ \A d \in FailedItems :
              \A k \in 1..Len(Disk(platform)) :
                  (/\ Disk(platform)[k].dir = Stat(platform, fs, d).dir
                   /\ Disk(platform)[k].dir # ""
                   /\ EntryPath(platform, Disk(platform)[k]) \in fs)
                  => Visited(Disk(platform)[k])
        /\ \A root \in RootsOf(call.drives) : Pruned(root) \/ root \in Range(progress)

\* C11 witness: a scan met a directory it could not list, then entered a
\* sibling directory listed after it, recorded a sibling file listed after it,
\* and entered a root that follows a failing directory of an earlier root.
C11_Witness ==
    /\ call.op = "scan_drives"
    /\ \E i, j \in 1..Len(progress) :
          /\ i < j
          /\ progress[i] = "D:\\Locked"
          /\ progress[i] \in FailedItems
          /\ progress[j] = "D:\\Work"
    /\ \E k \in 1..Len(scanned_files) : scanned_files[k].path = "D:\\held.bak"
    /\ \E i, j \in 1..Len(progress) :
          /\ i < j
          /\ progress[i] = "C:\\Sealed"
          /\ progress[i] \in FailedItems
          /\ progress[j] = "D:\\"

-----------------------------------------------------------------------------
(* C12 *)

\* the depth of a path below the directory a walk started at (depth 0)
DepthBelow(path, directory) == Len(Parts(platform, path)) - Len(Parts(platform, directory))

\* the stored directories at depth >= max_depth below the directory of the call
TooDeep ==
    {d \in WalkDirs(platform) \cap fs :
        /\ Beneath(platform, d, call.directory)
        /\ DepthBelow(d, call.directory) >= call.max_depth}

\* C12: a call of _scan_directory at depth 0 returns (reaching the bound is no
\* error), and for every directory at depth >= max_depth below its root no
\* progress notification was made and no record of the call lies in it, while
\* the entries of every directory the call entered and could list, all of
\* them at a depth below max_depth, were visited.
C12_DepthBounded ==
    call.op = "_scan_directory" =>
        /\ \A d \in TooDeep :
              /\ d \notin Range(progress)
              /\ \A k \in 1..Len(call.files) : ~Beneath(platform, call.files[k].path, d)
        /\ \A d \in Range(progress) : DepthBelow(d, call.directory) < call.max_depth
        /\ \A d \in Range(progress) \ FailedItems :
              \A k \in 1..Len(Disk(platform)) :
                  (/\ Disk(platform)[k].dir = d
                   /\ Disk(platform)[k].kind = "file"
                   /\ EntryPath(platform, Disk(platform)[k]) \in fs)
                  => Range(AnalyzeFile(platform, fs, ScannerPD, now,
                                       EntryPath(platform, Disk(platform)[k])))
                        \subseteq Range(call.files)

\* C12 witness: a walk of D:\ with max_depth 1 entered the root only, left
\* the directory D:\Data with its categorized files alone, and recorded the
\* file of the root that is listed after the directories.
C12_Witness ==
    /\ call.op = "_scan_directory"
    /\ call.directory = "D:\\"
    /\ call.max_depth = 1
    /\ progress = <<"D:\\">>
    /\ "D:\\Data" \in TooDeep
    /\ AnalyzeFile(platform, fs, ScannerPD, now, "D:\\Data\\old.log") # <<>>
    /\ Len(call.files) = 1
    /\ call.files[1].path = "D:\\held.bak"

-----------------------------------------------------------------------------
(* C13 *)

\* the positions of the terminal notifications among what a thread notified
Terminals(notes) == {i \in 1..Len(notes) : notes[i].signal \in {"finished", "error"}}

\* the directories of the progress notifications of a thread, in order
Notified(notes) ==
    [i \in 1..Len(SelectSeq(notes, LAMBDA n : n.signal = "progress")) |->
        SelectSeq(notes, LAMBDA n : n.signal = "progress")[i].directory]

\* the directories a scan of the drives visits: those at or below a root with
\* no pruned directory from the root down to them and no unreadable one above them
EnteredBy(drives) ==
    LET open == {a \in WalkDirs(platform) \cap fs : ~Pruned(a)}
        shut == (WalkDirs(platform) \cap fs) \ open
        unreadable == {a \in open : Stat(platform, fs, a).denied}
    IN  {d \in open :
            \E root \in RootsOf(drives) \cap open :
                /\ Within(platform, d, root)
                /\ \A a \in shut : ~(Within(platform, d, a) /\ Within(platform, a, root))
                /\ \A a \in unreadable : ~(Beneath(platform, d, a) /\ Within(platform, a, root))}

\* what a scan thread has notified is in order: at most one terminal
\* notification, after every progress notification, and exactly one once
\* run() is past its emit; finished carries the records scan_drives returned;
\* when the walk returns, one progress notification was made for each
\* directory visited, that of a directory before those of the directories in
\* it and whether or not its listing then failed
NotifiedInOrder(worker) ==
    /\ Cardinality(Terminals(worker.notes)) <= 1
    /\ Terminals(worker.notes) \subseteq {Len(worker.notes)}
    /\ worker.phase \in {"emitted", "exited"} => Cardinality(Terminals(worker.notes)) = 1
    /\ \A i \in Terminals(worker.notes) :
          worker.notes[i].signal = "finished" => worker.notes[i].files = worker.files
    /\ \A i, j \in 1..Len(Notified(worker.notes)) :
          /\ i # j => Notified(worker.notes)[i] # Notified(worker.notes)[j]
          /\ Beneath(platform, Notified(worker.notes)[j], Notified(worker.notes)[i]) => i < j
    /\ worker.phase = "returned"
          => Range(Notified(worker.notes)) = EnteredBy(worker.drives)

\* C13: every started scan thread notifies exactly one terminal signal,
\* finished with the records or error, never both and, the thread being
\* scheduled, never none; every progress notification of the scan comes
\* before it; progress is notified once for each directory visited, before
\* the directory is listed.
C13_OneTerminalAfterProgress ==
    /\ [](\A w \in 1..Len(workers) : NotifiedInOrder(workers[w]))
    /\ \A w \in 1..MaxScans :
          (Len(workers) >= w) ~> (Len(workers) >= w /\ Terminals(workers[w].notes) # {})

\* C13 witness: one scan thread has notified the directories it visited, one
\* of them unreadable, and then finished with records; another has notified
\* error and nothing else.
C13_Witness ==
    \E v, w \in 1..Len(workers) :
        /\ workers[v].phase = "exited"
        /\ Len(workers[v].notes) > 3
        /\ "D:\\Locked" \in Range(Notified(workers[v].notes))
        /\ workers[v].notes[Len(workers[v].notes)].signal = "finished"
        /\ Len(workers[v].notes[Len(workers[v].notes)].files) > 0
        /\ workers[w].phase = "exited"
        /\ workers[w].notes = <<ErrorNote>>

\* the scan threads whose run() has not returned
InFlight(threads) == {w \in 1..Len(threads) : threads[w].phase # "exited"}

\* a step of _start_scan taken while a scan thread is running: the request is
\* rejected, no thread is started and the scanner's results are left alone
RejectedWhileRunning ==
    (call = Idle /\ call'.op = "_start_scan" /\ IsRunning(workers)) =>
        /\ call'.ret = "rejected"
        /\ workers' = workers
        /\ scanned_files' = scanned_files
        /\ total_size' = total_size

\* C14: at most one scan thread is in flight at any moment, whatever the
\* interleaving of scan requests, cleanups and thread steps, so that at most
\* one walk writes scanned_files and total_size; a scan requested while a
\* thread is running is rejected and starts no second thread.
C14_OneScanInFlight ==
    /\ [](Cardinality(InFlight(workers)) <= 1)
    /\ [][RejectedWhileRunning /\ (IsRunning(workers) => Len(workers') = Len(workers))]_vars

\* C14 witness: a second scan thread, started after the first had exited, is
\* in the middle of its walk and a scan request has just been rejected.
C14_Witness ==
    /\ call.op = "_start_scan"
    /\ call.ret = "rejected"
    /\ Len(workers) = 2
    /\ workers[1].phase = "exited"
    /\ workers[2].phase = "walking"

\* C15: a rule's name-substrings match a file only if one of them, in the
\* letter case the rule lists it in, is part of the file's name: a name that
\* has the substring in another letter case only (cAcHe.dat against cache,
\* Cache, CACHE) is not matched by the rule's name-substrings.
C15_NameMatchingCaseSensitive ==
    call.op = "_categorize_file" =>
        \A i \in 1..Len(call.rules) :
            PatternHit(call.rules[i], call.file_name) =>
                \E pattern \in call.rules[i].patterns :
                    Contains(PathName("Windows", call.file), pattern)

\* the path is a protected directory of the scanner's checker or lies below one
UnderProtected(path) == \E d \in ScannerPD : Within(platform, path, d)

\* the directories on the storage that a scan met in a directory it listed
\* and did not enter
LeftOut ==
    {EntryPath(platform, Disk(platform)[k]) : k \in
        {j \in 1..Len(Disk(platform)) :
            /\ Disk(platform)[j].dir \in Range(progress)
            /\ ~Stat(platform, fs, Disk(platform)[j].dir).denied
            /\ Stat(platform, fs, EntryPath(platform, Disk(platform)[j])).kind = "dir"
            /\ EntryPath(platform, Disk(platform)[j]) \notin Range(progress)}}

\* C16: is_safe_to_delete answers unsafe with the directory reason only for a
\* path that is a protected directory or lies below one, and a scan leaves
\* out only such directories: a path that only begins with the characters of
\* a protected directory (C:\Bootcamp\x.log against C:\Boot) is neither
\* judged unsafe for directory protection nor pruned.
C16_ProtectionOnlyUnderDirectory ==
    call.op = "scan_drives" =>
        /\ \A path \in GatePaths(platform) :
              (/\ ~IsSafeToDelete(platform, fs, ScannerPD, path).safe
               /\ IsDirectoryReason(IsSafeToDelete(platform, fs, ScannerPD, path).reason))
              => UnderProtected(path)
        /\ \A directory \in LeftOut : UnderProtected(directory)

\* the path lies below a root of the scan and every directory from the root
\* down to it can be listed
InReadableDirectories(path, drives) ==
    \E root \in RootsOf(drives) :
        /\ Beneath(platform, path, root)
        /\ \A a \in DiskPaths(platform) \cap fs :
              (Within(platform, a, root) /\ Beneath(platform, path, a))
                  => ~Stat(platform, fs, a).denied

\* C17: when a scan returns, every file of the storage below a scanned root,
\* in directories that can be listed, that is_safe_to_delete judges safe and
\* _categorize_file gives a category (those _analyze_file gives a record for)
\* has its record in the result; files of temporary locations below protected
\* directories (C:\Windows\Temp\a.tmp) are among them.
C17_ScanComplete ==
    call.op = "scan_drives" =>
        \A path \in DiskPaths(platform) \cap fs :
            (/\ Stat(platform, fs, path).kind = "file"
             /\ InReadableDirectories(path, call.drives))
            => Range(AnalyzeFile(platform, fs, ScannerPD, now, path)) \subseteq Range(scanned_files)

\* MainWindow._update_statistics: the size shown, 0 for an empty table and
\* FileScanner.total_size (get_total_size_mb, here in bytes) otherwise
ShownSize == IF window_files = <<>> THEN 0 ELSE total_size

\* C18: the total size reported, FileScanner.total_size and the size the
\* statistics show, is the sum of the sizes of the records listed in the
\* table, after every scan and every cleanup.
C18_TotalIsSumOfListed ==
    /\ total_size = SumSizes(window_files)
    /\ ShownSize = SumSizes(window_files)

====
